---- MODULE Spec2Model ----
(***************************************************************************)
(* Model of the HTML-to-text converter of the rustOS browser               *)
(* (src/src/main.rs, html_to_text and decode_html_entity).                 *)
(*                                                                         *)
(* A Rust char is modelled by its Unicode scalar value (an integer), a     *)
(* String / Vec<char> by a sequence of them.  One step of the model is one *)
(* iteration of the main while loop; the cleanup pass is a final step.     *)
(***************************************************************************)
EXTENDS Integers, Sequences, FiniteSets, TLC

(***************************************************************************)
(* Characters the code names.                                              *)
(***************************************************************************)
Lt == 60
Gt == 62
Amp == 38
Semi == 59
Newline == 10
Space == 32
Plus == 43
Minus == 45

\* u32 arithmetic is carried out on two 16-bit limbs so that the overflow
\* of str::parse::<u32> / u32::from_str_radix is decided exactly.
Limb == 65536
\* char::from_u32: the largest scalar value is 0x10FFFF = 16 * 65536 + 65535,
\* the surrogates 0xD800..0xDFFF are excluded.
MaxScalarHi == 16
SurrogateLo == 55296
SurrogateHi == 57343

(***************************************************************************)
(* Library functions of the Rust standard library the code calls.          *)
(***************************************************************************)
\* char::is_whitespace: the Unicode White_Space property
IsWhitespace(c) ==
    c \in ((9..13) \cup {32, 133, 160, 5760} \cup (8192..8202)
             \cup {8232, 8233, 8239, 8287, 12288})

\* str::to_lowercase, as far as comparing the result with the ASCII tag
\* names is concerned: A-Z map to a-z; no other character lower-cases to a
\* letter that occurs in a tag name the code compares with.
ToLowercase(s) ==
    [k \in 1..Len(s) |-> IF s[k] \in 65..90 THEN s[k] + 32 ELSE s[k]]

StartsWith(s, p) == Len(s) >= Len(p) /\ SubSeq(s, 1, Len(p)) = p

EndsWith(s, c) == Len(s) > 0 /\ s[Len(s)] = c

\* str::trim: leading and trailing White_Space removed
RECURSIVE TrimStart(_)
TrimStart(s) ==
    IF s # <<>> /\ IsWhitespace(Head(s)) THEN TrimStart(Tail(s)) ELSE s

RECURSIVE TrimEnd(_)
TrimEnd(s) ==
    IF s # <<>> /\ IsWhitespace(s[Len(s)])
    THEN TrimEnd(SubSeq(s, 1, Len(s) - 1)) ELSE s

Trim(s) == TrimEnd(TrimStart(s))

\* char::to_digit(radix); 99 stands for None
DigitValue(c) ==
    IF c \in 48..57 THEN c - 48
    ELSE IF c \in 97..122 THEN c - 87
    ELSE IF c \in 65..90 THEN c - 55
    ELSE 99

ParseErr == [ok |-> FALSE, hi |-> 0, lo |-> 0]

RECURSIVE AccumulateU32(_, _, _, _)
AccumulateU32(digits, radix, k, acc) ==
    IF k > Len(digits) THEN acc
    ELSE LET d == DigitValue(digits[k]) IN
         IF d >= radix THEN ParseErr                      \* InvalidDigit
         ELSE LET lo2 == acc.lo * radix + d
                  hi2 == acc.hi * radix + (lo2 \div Limb)
              IN IF hi2 >= Limb THEN ParseErr              \* PosOverflow
                 ELSE AccumulateU32(digits, radix, k + 1,
                          [ok |-> TRUE, hi |-> hi2, lo |-> lo2 % Limb])

\* u32::from_str_radix(src, radix) and str::parse::<u32>() (radix 10): the
\* empty string and a lone sign are errors, one leading '+' is accepted,
\* a '-' is an invalid digit for an unsigned type.
ParseU32(src, radix) ==
    IF Len(src) = 0 THEN ParseErr
    ELSE IF Len(src) = 1 /\ src[1] \in {Plus, Minus} THEN ParseErr
    ELSE IF src[1] = Plus
         THEN AccumulateU32(Tail(src), radix, 1, [ok |-> TRUE, hi |-> 0, lo |-> 0])
         ELSE AccumulateU32(src, radix, 1, [ok |-> TRUE, hi |-> 0, lo |-> 0])

\* char::from_u32 on a parsed value: None for surrogates and above 0x10FFFF
CharFromU32(v) ==
    IF v.hi > MaxScalarHi \/ (v.hi = 0 /\ v.lo \in SurrogateLo..SurrogateHi)
    THEN [some |-> FALSE, c |-> 0]
    ELSE [some |-> TRUE, c |-> v.hi * Limb + v.lo]

(***************************************************************************)
(* decode_html_entity                                                      *)
(***************************************************************************)
HexPrefix == <<38, 35, 120>>        \* "&#x"
NumPrefix == <<38, 35>>             \* "&#"

NamedEntity(entity) ==
    CASE entity = <<38, 110, 98, 115, 112, 59>>           -> <<32>>    \* "&nbsp;" " "
      [] entity = <<38, 108, 116, 59>>                    -> <<60>>    \* "&lt;" "<"
      [] entity = <<38, 103, 116, 59>>                    -> <<62>>    \* "&gt;" ">"
      [] entity = <<38, 97, 109, 112, 59>>                -> <<38>>    \* "&amp;" "&"
      [] entity = <<38, 113, 117, 111, 116, 59>>          -> <<34>>    \* "&quot;"
      [] entity = <<38, 97, 112, 111, 115, 59>>           -> <<39>>    \* "&apos;" "'"
      [] entity = <<38, 99, 111, 112, 121, 59>>           -> <<169>>   \* "&copy;"
      [] entity = <<38, 114, 101, 103, 59>>               -> <<174>>   \* "&reg;"
      [] entity = <<38, 116, 114, 97, 100, 101, 59>>      -> <<8482>>  \* "&trade;"
      [] entity = <<38, 109, 100, 97, 115, 104, 59>>      -> <<8212>>  \* "&mdash;"
      [] entity = <<38, 110, 100, 97, 115, 104, 59>>      -> <<8211>>  \* "&ndash;"
      [] entity = <<38, 104, 101, 108, 108, 105, 112, 59>> -> <<8230>> \* "&hellip;"
      [] entity = <<38, 98, 117, 108, 108, 59>>           -> <<8226>>  \* "&bull;"
      [] OTHER -> <<>>                                     \* not in the match

\* mutant: the digits of a hexadecimal reference are parsed in radix 10
NumericEntityHexAsDecimal(entity) ==
    IF StartsWith(entity, NumPrefix) /\ EndsWith(entity, Semi)
    THEN LET from == IF StartsWith(entity, HexPrefix) THEN 4 ELSE 3
             code == ParseU32(SubSeq(entity, from, Len(entity) - 1), 10)
         IN IF code.ok /\ CharFromU32(code).some
            THEN <<CharFromU32(code).c>> ELSE entity
    ELSE entity

\* the `_ =>` arm: numeric references, else the entity itself
NumericEntity(entity) ==
    IF StartsWith(entity, HexPrefix) /\ EndsWith(entity, Semi)
    THEN LET code == ParseU32(SubSeq(entity, 4, Len(entity) - 1), 16) IN
         IF code.ok /\ CharFromU32(code).some
         THEN <<CharFromU32(code).c>> ELSE entity
    ELSE IF StartsWith(entity, NumPrefix) /\ EndsWith(entity, Semi)
    THEN LET code == ParseU32(SubSeq(entity, 3, Len(entity) - 1), 10) IN
         IF code.ok /\ CharFromU32(code).some
         THEN <<CharFromU32(code).c>> ELSE entity
    ELSE entity

DecodeHtmlEntity(entity) ==
    IF NamedEntity(entity) # <<>> THEN NamedEntity(entity)
    ELSE NumericEntity(entity)

(***************************************************************************)
(* html_to_text: the body of the main loop.  A state of the loop is the    *)
(* record of the function's locals.                                        *)
(***************************************************************************)
InitLocals ==
    [i |-> 1, result |-> <<>>, in_tag |-> FALSE, in_script |-> FALSE,
     in_style |-> FALSE, tag_name |-> <<>>, last_char_was_space |-> FALSE]

\* mutant: the tag text is trimmed before it is compared
IsBrTagTrimmed(tag_lower) ==
    Trim(tag_lower) \in { <<98, 114>>,            \* "br"
                          <<98, 114, 47>>,        \* "br/"
                          <<98, 114, 32, 47>> }   \* "br /"

IsBrTag(tag_lower) ==
    tag_lower \in { <<98, 114>>,            \* "br"
                    <<98, 114, 47>>,        \* "br/"
                    <<98, 114, 32, 47>> }   \* "br /"

IsBlockTag(tag_lower) ==
    tag_lower \in {
        <<112>>, <<47, 112>>,                          \* "p" "/p"
        <<100, 105, 118>>, <<47, 100, 105, 118>>,      \* "div" "/div"
        <<104, 49>>, <<47, 104, 49>>,                  \* "h1" "/h1"
        <<104, 50>>, <<47, 104, 50>>,                  \* "h2" "/h2"
        <<104, 51>>, <<47, 104, 51>>,                  \* "h3" "/h3"
        <<104, 52>>, <<47, 104, 52>>,                  \* "h4" "/h4"
        <<104, 53>>, <<47, 104, 53>>,                  \* "h5" "/h5"
        <<104, 54>>, <<47, 104, 54>>,                  \* "h6" "/h6"
        <<108, 105>>, <<47, 108, 105>>,                \* "li" "/li"
        <<116, 114>>, <<47, 116, 114>> }               \* "tr" "/tr"

ScriptTag == <<115, 99, 114, 105, 112, 116>>          \* "script"
ScriptEndTag == <<47, 115, 99, 114, 105, 112, 116>>   \* "/script"
StyleTag == <<115, 116, 121, 108, 101>>               \* "style"
StyleEndTag == <<47, 115, 116, 121, 108, 101>>        \* "/style"

\* mutant: the scan position is not advanced before the `continue`
OnLtNoAdvance(s) ==
    [s EXCEPT !.in_tag = TRUE, !.tag_name = <<>>]

\* c == '<': enter a tag
OnLt(s) ==
    [s EXCEPT !.in_tag = TRUE, !.tag_name = <<>>, !.i = s.i + 1]

\* mutant: br goes through the duplicate suppression of the block tags
TagNewlineBrSuppressed(result, tag_lower) ==
    IF IsBrTag(tag_lower) \/ IsBlockTag(tag_lower)
    THEN IF ~EndsWith(result, Newline) THEN Append(result, Newline) ELSE result
    ELSE result

\* mutant: a block tag appends its newline without looking at the buffer
TagNewlineAlways(result, tag_lower) ==
    IF IsBrTag(tag_lower) \/ IsBlockTag(tag_lower)
    THEN Append(result, Newline)
    ELSE result

\* mutant: the newline of a tag takes the place of a space before it
TagNewlineOverSpace(result, tag_lower) ==
    IF IsBrTag(tag_lower) \/ (IsBlockTag(tag_lower) /\ ~EndsWith(result, Newline))
    THEN IF EndsWith(result, Space)
         THEN Append(SubSeq(result, 1, Len(result) - 1), Newline)
         ELSE Append(result, Newline)
    ELSE result

\* the buffer after the br / block-level newline rule
TagNewline(result, tag_lower) ==
    IF IsBrTag(tag_lower) THEN Append(result, Newline)
    ELSE IF IsBlockTag(tag_lower)
         THEN IF ~EndsWith(result, Newline) THEN Append(result, Newline)
              ELSE result
         ELSE result

\* in_tag and c == '>': the tag is complete
OnTagClose(s) ==
    LET tag_lower == ToLowercase(s.tag_name) IN
    [s EXCEPT
       !.in_tag = FALSE,
       !.result = TagNewline(s.result, tag_lower),
       !.last_char_was_space =
           IF IsBrTag(tag_lower) \/ IsBlockTag(tag_lower) THEN TRUE ELSE @,
       !.in_script = IF tag_lower = ScriptTag THEN TRUE
                     ELSE IF tag_lower = ScriptEndTag THEN FALSE ELSE @,
       !.in_style = IF tag_lower \in {ScriptTag, ScriptEndTag} THEN @
                    ELSE IF tag_lower = StyleTag THEN TRUE
                    ELSE IF tag_lower = StyleEndTag THEN FALSE ELSE @,
       !.tag_name = <<>>,
       !.i = s.i + 1]

\* mutant: a character of the tag is also copied to the buffer
OnTagCharLeaks(s, c) ==
    [s EXCEPT !.tag_name = Append(s.tag_name, c),
              !.result = Append(s.result, c), !.i = s.i + 1]

\* in_tag and c != '>': the character joins the tag name
OnTagChar(s, c) ==
    [s EXCEPT !.tag_name = Append(s.tag_name, c), !.i = s.i + 1]

\* in_script || in_style: the character is skipped
OnSkip(s) == [s EXCEPT !.i = s.i + 1]

\* mutant: without a ';' the candidate runs to the end of the input
EntityEndOrInputEnd(cs, i) ==
    IF \E k \in i..Len(cs) : cs[k] = Semi
    THEN (CHOOSE k \in i..Len(cs) :
              cs[k] = Semi /\ \A j \in i..(k - 1) : cs[j] # Semi) - i
    ELSE Len(cs) - i

\* chars[i..].iter().position(|&x| x == ';'): the offset of the first ';'
\* at or after position i, -1 for None
EntityEnd(cs, i) ==
    IF \E k \in i..Len(cs) : cs[k] = Semi
    THEN (CHOOSE k \in i..Len(cs) :
              cs[k] = Semi /\ \A j \in i..(k - 1) : cs[j] # Semi) - i
    ELSE -1

\* mutant: a substitution always clears the white-space flag
OnEntityFlagCleared(cs, s) ==
    LET end_pos == EntityEnd(cs, s.i)
        entity == SubSeq(cs, s.i, s.i + end_pos)
        decoded == DecodeHtmlEntity(entity)
    IN [s EXCEPT
          !.result = s.result \o decoded,
          !.last_char_was_space = FALSE,
          !.i = s.i + end_pos + 1]

\* c == '&' and a ';' follows: the candidate is decoded and skipped
OnEntity(cs, s) ==
    LET end_pos == EntityEnd(cs, s.i)
        entity == SubSeq(cs, s.i, s.i + end_pos)
        decoded == DecodeHtmlEntity(entity)
    IN [s EXCEPT
          !.result = s.result \o decoded,
          !.last_char_was_space =
              IF decoded = <<>> THEN FALSE
              ELSE IsWhitespace(decoded[Len(decoded)]),
          !.i = s.i + end_pos + 1]

\* mutant: the white-space flag is not consulted
OnWhitespaceAlways(s) ==
    IF s.result # <<>>
    THEN [s EXCEPT !.result = Append(s.result, Space),
                   !.last_char_was_space = TRUE, !.i = s.i + 1]
    ELSE [s EXCEPT !.i = s.i + 1]

\* c.is_whitespace()
OnWhitespace(s) ==
    IF ~s.last_char_was_space /\ s.result # <<>>
    THEN [s EXCEPT !.result = Append(s.result, Space),
                   !.last_char_was_space = TRUE, !.i = s.i + 1]
    ELSE [s EXCEPT !.i = s.i + 1]

\* any other character
OnChar(s, c) ==
    [s EXCEPT !.result = Append(s.result, c),
              !.last_char_was_space = FALSE, !.i = s.i + 1]

\* which arm of the loop body handles position s.i
Branch(cs, s) ==
    LET c == cs[s.i] IN
    IF c = Lt THEN "lt"
    ELSE IF s.in_tag THEN (IF c = Gt THEN "tag_close" ELSE "tag_char")
    ELSE IF s.in_script \/ s.in_style THEN "skip"
    ELSE IF c = Amp /\ EntityEnd(cs, s.i) # -1 THEN "entity"
    ELSE IF IsWhitespace(c) THEN "whitespace"
    ELSE "char"

LoopBody(cs, s) ==
    LET c == cs[s.i]
        b == Branch(cs, s)
    IN CASE b = "lt"         -> OnLt(s)
         [] b = "tag_close"  -> OnTagClose(s)
         [] b = "tag_char"   -> OnTagChar(s, c)
         [] b = "skip"       -> OnSkip(s)
         [] b = "entity"     -> OnEntity(cs, s)
         [] b = "whitespace" -> OnWhitespace(s)
         [] OTHER            -> OnChar(s, c)

RECURSIVE MainPass(_, _)
MainPass(cs, s) ==
    IF s.i <= Len(cs) THEN MainPass(cs, LoopBody(cs, s)) ELSE s

\* the cleanup loop over result.trim().chars()
RECURSIVE CleanLoop(_, _, _)
CleanLoop(rest, acc, prev_was_newline) ==
    IF rest = <<>> THEN acc
    ELSE IF Head(rest) = Newline
         THEN CleanLoop(Tail(rest),
                        IF ~prev_was_newline THEN Append(acc, Newline) ELSE acc,
                        TRUE)
         ELSE CleanLoop(Tail(rest), Append(acc, Head(rest)), FALSE)

\* mutant: the buffer is not trimmed before the cleanup loop
CleanUpNoTrim(res) == CleanLoop(res, <<>>, FALSE)

CleanUp(res) == CleanLoop(Trim(res), <<>>, FALSE)

HtmlToText(html) == CleanUp(MainPass(html, InitLocals).result)

(***************************************************************************)
(* Inputs.                                                                 *)
(***************************************************************************)
MaxLen == 4
MaxTokens == 5
MaxBr == 3
MaxRun == 3
MaxBody == 2
MaxDigits == 2

SeqsUpTo(S, n) == UNION {[1..k -> S] : k \in 0..n}

RECURSIVE Concat(_)
Concat(ss) == IF ss = <<>> THEN <<>> ELSE Head(ss) \o Concat(Tail(ss))

\* every string over '<' '>' '&' ';' 'a' ' ' '\n' up to MaxLen characters
GeneralInputs == SeqsUpTo({Lt, Gt, Amp, Semi, 97, Space, Newline}, MaxLen)

\* plain text with several kinds of white space:
\* 'a' 'b' ' ' '\t' '\n' U+00A0 U+3000
PlainInputs == SeqsUpTo({97, 98, Space, 9, Newline, 160, 12288}, MaxLen)

\* documents of up to MaxTokens pieces of text, tags and entities
MixedTokens == {
    <<97>>,                            \* "a"
    <<32>>,                            \* " "
    <<60, 98, 114, 62>>,               \* "<br>"
    <<60, 112, 62>>,                   \* "<p>"
    <<38, 110, 98, 115, 112, 59>> }    \* "&nbsp;"

MixedInputs == {Concat(ts) : ts \in SeqsUpTo(MixedTokens, MaxTokens)}

\* text and br tags in the three spellings and several letter cases
BrTokens == {
    <<97>>,                            \* "a"
    <<60, 98, 114, 62>>,               \* "<br>"
    <<60, 98, 114, 47, 62>>,           \* "<br/>"
    <<60, 98, 114, 32, 47, 62>>,       \* "<br />"
    <<60, 66, 82, 62>>,                \* "<BR>"
    <<60, 98, 82, 47, 62>>,            \* "<bR/>"
    <<60, 66, 114, 32, 47, 62>> }      \* "<Br />"

BrInputs == {Concat(ts) : ts \in SeqsUpTo(BrTokens, MaxBr)}

\* two texts around a run of block-level tags
BlockSpellings == {
    <<60, 112, 62>>, <<60, 47, 112, 62>>,                       \* <p> </p>
    <<60, 100, 105, 118, 62>>, <<60, 47, 100, 105, 118, 62>>,   \* <div> </div>
    <<60, 104, 49, 62>>, <<60, 47, 104, 49, 62>>,               \* <h1> </h1>
    <<60, 104, 50, 62>>, <<60, 47, 104, 50, 62>>,               \* <h2> </h2>
    <<60, 104, 51, 62>>, <<60, 47, 104, 51, 62>>,               \* <h3> </h3>
    <<60, 104, 52, 62>>, <<60, 47, 104, 52, 62>>,               \* <h4> </h4>
    <<60, 104, 53, 62>>, <<60, 47, 104, 53, 62>>,               \* <h5> </h5>
    <<60, 104, 54, 62>>, <<60, 47, 104, 54, 62>>,               \* <h6> </h6>
    <<60, 108, 105, 62>>, <<60, 47, 108, 105, 62>>,             \* <li> </li>
    <<60, 116, 114, 62>>, <<60, 47, 116, 114, 62>>,             \* <tr> </tr>
    <<60, 80, 62>>,                                             \* <P>
    <<60, 47, 68, 105, 118, 62>>,                               \* </Div>
    <<60, 76, 73, 62>>,                                         \* <LI>
    <<60, 47, 116, 82, 62>>,                                    \* </tR>
    <<60, 72, 49, 62>> }                                        \* <H1>

FewBlockSpellings == {
    <<60, 112, 62>>,                   \* <p>
    <<60, 47, 68, 105, 118, 62>>,      \* </Div>
    <<60, 47, 104, 54, 62>> }          \* </h6>

BlockRuns ==
    {Concat(ts) : ts \in [1..2 -> BlockSpellings]}
      \cup {Concat(ts) : ts \in UNION {[1..k -> FewBlockSpellings] : k \in 1..MaxRun}}

BlockInputs ==
    {t1 \o run \o t2 :
        t1 \in {<<97>>, <<97, 32>>},               \* "a" "a "
        run \in BlockRuns,
        t2 \in {<<98>>, <<10, 98, 32>>}}           \* "b" "\nb "

\* a script or a style element between two plain texts
BodyTokens == {
    <<97>>,                                        \* "a"
    <<38, 97, 109, 112, 59>>,                      \* "&amp;"
    <<60, 98, 62>>,                                \* "<b>"
    <<60, 112, 62>>,                               \* "<p>"
    <<60, 115, 99, 114, 105, 112, 116, 62>>,       \* "<script>"
    <<60, 115, 116, 121, 108, 101, 62>> }          \* "<style>"

Wrappers == {
    << <<60, 115, 99, 114, 105, 112, 116, 62>>,
       <<60, 47, 115, 99, 114, 105, 112, 116, 62>> >>,     \* <script> </script>
    << <<60, 83, 67, 82, 73, 80, 84, 62>>,
       <<60, 47, 83, 99, 114, 105, 112, 116, 62>> >>,      \* <SCRIPT> </Script>
    << <<60, 115, 116, 121, 108, 101, 62>>,
       <<60, 47, 115, 116, 121, 108, 101, 62>> >>,         \* <style> </style>
    << <<60, 83, 116, 121, 108, 101, 62>>,
       <<60, 47, 83, 84, 89, 76, 69, 62>> >> }             \* <Style> </STYLE>

ScriptInputs ==
    {x \o w[1] \o Concat(c) \o w[2] \o y :
        x \in {<<>>, <<97, 32>>},                  \* "" "a "
        w \in Wrappers,
        c \in SeqsUpTo(BodyTokens, MaxBody),
        y \in {<<>>, <<32, 98>>}}                  \* "" " b"

\* one entity candidate between two texts
NamedCandidates == {
    <<38, 110, 98, 115, 112, 59>>,                 \* "&nbsp;"
    <<38, 108, 116, 59>>,                          \* "&lt;"
    <<38, 103, 116, 59>>,                          \* "&gt;"
    <<38, 97, 109, 112, 59>>,                      \* "&amp;"
    <<38, 113, 117, 111, 116, 59>>,                \* "&quot;"
    <<38, 97, 112, 111, 115, 59>>,                 \* "&apos;"
    <<38, 99, 111, 112, 121, 59>>,                 \* "&copy;"
    <<38, 114, 101, 103, 59>>,                     \* "&reg;"
    <<38, 116, 114, 97, 100, 101, 59>>,            \* "&trade;"
    <<38, 109, 100, 97, 115, 104, 59>>,            \* "&mdash;"
    <<38, 110, 100, 97, 115, 104, 59>>,            \* "&ndash;"
    <<38, 104, 101, 108, 108, 105, 112, 59>>,      \* "&hellip;"
    <<38, 98, 117, 108, 108, 59>>,                 \* "&bull;"
    <<38, 65, 77, 80, 59>>,                        \* "&AMP;"
    <<38, 102, 111, 111, 59>>,                     \* "&foo;"
    <<38, 59>> }                                   \* "&;"

LongNumericCandidates == {
    <<38, 35, 120, 49, 49, 48, 48, 48, 48, 59>>,                  \* "&#x110000;"
    <<38, 35, 120, 68, 56, 48, 48, 59>>,                          \* "&#xD800;"
    <<38, 35, 120, 68, 70, 70, 70, 59>>,                          \* "&#xDFFF;"
    <<38, 35, 120, 68, 55, 70, 70, 59>>,                          \* "&#xD7FF;"
    <<38, 35, 120, 69, 48, 48, 48, 59>>,                          \* "&#xE000;"
    <<38, 35, 120, 49, 48, 70, 70, 70, 70, 59>>,                  \* "&#x10FFFF;"
    <<38, 35, 49, 49, 49, 52, 49, 49, 49, 59>>,                   \* "&#1114111;"
    <<38, 35, 49, 49, 49, 52, 49, 49, 50, 59>>,                   \* "&#1114112;"
    <<38, 35, 53, 53, 50, 57, 54, 59>>,                           \* "&#55296;"
    <<38, 35, 52, 50, 57, 52, 57, 54, 55, 50, 57, 53, 59>>,       \* "&#4294967295;"
    <<38, 35, 52, 50, 57, 52, 57, 54, 55, 50, 57, 54, 59>>,       \* "&#4294967296;"
    <<38, 35, 120, 49, 48, 48, 48, 48, 48, 48, 48, 48, 59>>,      \* "&#x100000000;"
    <<38, 35, 120, 48, 48, 48, 48, 48, 48, 48, 48, 52, 49, 59>>,  \* "&#x0000000041;"
    <<38, 35, 57, 57, 57, 57, 57, 57, 57, 57, 57, 57, 57, 59>>,   \* "&#99999999999;"
    <<38, 35, 88, 52, 49, 59>> }                                  \* "&#X41;"

\* '+' '-' '0' '1' '4' '5' '6' 'F' 'z'
DigitChars == {Plus, Minus, 48, 49, 52, 53, 54, 70, 122}

ShortNumericCandidates ==
    {p \o d \o <<Semi>> :
        p \in {HexPrefix, NumPrefix}, d \in SeqsUpTo(DigitChars, MaxDigits)}

EntityInputs ==
    {pre \o cand \o post :
        pre \in {<<>>, <<97, 32>>},                \* "" "a "
        cand \in NamedCandidates \cup LongNumericCandidates
                   \cup ShortNumericCandidates,
        post \in {<<>>, <<98>>}}                   \* "" "b"

\* one tag that carries attributes or extra spaces, or is unknown, between
\* two texts
OtherTags == {
    <<60, 112, 32, 99, 108, 97, 115, 115, 61, 120, 62>>,                 \* "<p class=x>"
    <<60, 80, 32, 67, 76, 65, 83, 83, 61, 88, 62>>,                      \* "<P CLASS=X>"
    <<60, 98, 114, 32, 62>>,                                             \* "<br >"
    <<60, 98, 114, 47, 32, 62>>,                                         \* "<br/ >"
    <<60, 32, 112, 62>>,                                                 \* "< p>"
    <<60, 115, 99, 114, 105, 112, 116, 32, 115, 114, 99, 61, 97, 62>>,   \* "<script src=a>"
    <<60, 115, 116, 121, 108, 101, 32, 62>>,                             \* "<style >"
    <<60, 47, 115, 99, 114, 105, 112, 116, 32, 62>>,                     \* "</script >"
    <<60, 112, 114, 101, 62>>,                                           \* "<pre>"
    <<60, 47, 97, 62>>,                                                  \* "</a>"
    <<60, 33, 45, 45, 62>>,                                              \* "<!-->"
    <<60, 62>> }                                                         \* "<>"

OtherTagInputs ==
    {pre \o open \o tag \o post :
        pre \in {<<>>, <<97>>, <<97, 32>>},                            \* "" "a" "a "
        open \in {<<>>, <<60, 115, 99, 114, 105, 112, 116, 62>>},      \* "" "<script>"
        tag \in OtherTags,
        post \in {<<>>, <<98>>, <<32, 98>>}}                           \* "" "b" " b"

Inputs ==
    GeneralInputs \cup PlainInputs \cup MixedInputs \cup BrInputs
      \cup BlockInputs \cup ScriptInputs \cup EntityInputs \cup OtherTagInputs

(***************************************************************************)
(* The state machine.                                                      *)
(***************************************************************************)
VARIABLES
    chars,                 \* the input, html.chars().collect()
    i, result, in_tag, in_script, in_style, tag_name, last_char_was_space,
    cleaned,               \* the returned text, once the cleanup pass ran
    pc,                    \* "scan": in the main loop, "done": returned
    mark,                  \* history: result when the open tag's '<' was scanned
    origin                 \* history: for each character of result, what
                           \* appended it

\* main and http_get: the files of the IPC directory and the locals of a run
VARIABLES
    response_file,         \* /.net/response.json: whether it exists, its text
    request_file,          \* /.net/request.json: whether it exists, its fields
    response_content,      \* http_get: the text read from the response file
    response,              \* main: the HttpResponse returned by http_get
    text,                  \* main: the converted text
    shown,                 \* what main has printed of the response
    run,                   \* history: what the current run has done
    tally                  \* history: requests, responses, reads and displays

htmlVars == <<chars, i, result, in_tag, in_script, in_style, tag_name,
              last_char_was_space, cleaned, mark, origin>>

mainVars == <<response_file, request_file, response_content, response,
              text, shown, run, tally>>

vars == <<chars, i, result, in_tag, in_script, in_style, tag_name,
          last_char_was_space, cleaned, pc, mark, origin,
          response_file, request_file, response_content, response,
          text, shown, run, tally>>

NoFile == [exists |-> FALSE, content |-> <<>>]

NoRequest == [exists |-> FALSE, method |-> "", url |-> ""]

\* HttpResponse; error is an Option<String>
NoResponse ==
    [status |-> 0, body |-> <<>>, error |-> [some |-> FALSE, value |-> <<>>]]

NothingShown == [kind |-> "none", out |-> <<>>, more |-> 0]

NewRun ==
    [found |-> "unchecked", read |-> FALSE, removed |-> FALSE,
     returned |-> FALSE, wrote |-> FALSE, exited |-> FALSE]

NewTally ==
    [requests |-> 0, responses |-> 0, reads |-> 0, displays |-> 0,
     last |-> "none"]

\* nothing of main or http_get has run
MainIdle ==
    /\ response_file = NoFile
    /\ request_file = NoRequest
    /\ response_content = <<>>
    /\ response = NoResponse
    /\ text = <<>>
    /\ shown = NothingShown
    /\ run = NewRun
    /\ tally = NewTally

Locals ==
    [i |-> i, result |-> result, in_tag |-> in_tag, in_script |-> in_script,
     in_style |-> in_style, tag_name |-> tag_name,
     last_char_was_space |-> last_char_was_space]

SetLocals(s) ==
    /\ i' = s.i
    /\ result' = s.result
    /\ in_tag' = s.in_tag
    /\ in_script' = s.in_script
    /\ in_style' = s.in_style
    /\ tag_name' = s.tag_name
    /\ last_char_was_space' = s.last_char_was_space

Init ==
    /\ chars \in Inputs
    /\ i = 1
    /\ result = <<>>
    /\ in_tag = FALSE
    /\ in_script = FALSE
    /\ in_style = FALSE
    /\ tag_name = <<>>
    /\ last_char_was_space = FALSE
    /\ cleaned = <<>>
    /\ pc = "scan"
    /\ mark = <<>>
    /\ origin = <<>>
    /\ MainIdle

\* origin after a step whose appended characters all come from `kind`:
\* "forced" (the newline of a br or block tag), "entity" (a substitution),
\* "normalizer" (the space for a run of white space), "char" (a copy)
Tagged(kind) ==
    origin \o [k \in 1..(Len(result') - Len(result)) |-> kind]

Scanning(b) == pc = "scan" /\ i <= Len(chars) /\ Branch(chars, Locals) = b

ScanLt ==
    /\ Scanning("lt")
    /\ SetLocals(OnLt(Locals))
    /\ mark' = IF in_tag THEN mark ELSE result
    /\ UNCHANGED <<chars, cleaned, pc, origin>>
    /\ UNCHANGED mainVars

ScanTagClose ==
    /\ Scanning("tag_close")
    /\ SetLocals(OnTagClose(Locals))
    /\ origin' = Tagged("forced")
    /\ UNCHANGED <<chars, cleaned, pc, mark>>
    /\ UNCHANGED mainVars

ScanTagChar ==
    /\ Scanning("tag_char")
    /\ SetLocals(OnTagChar(Locals, chars[i]))
    /\ UNCHANGED <<chars, cleaned, pc, mark, origin>>
    /\ UNCHANGED mainVars

SkipBody ==
    /\ Scanning("skip")
    /\ SetLocals(OnSkip(Locals))
    /\ UNCHANGED <<chars, cleaned, pc, mark, origin>>
    /\ UNCHANGED mainVars

ScanEntity ==
    /\ Scanning("entity")
    /\ SetLocals(OnEntity(chars, Locals))
    /\ origin' = Tagged("entity")
    /\ UNCHANGED <<chars, cleaned, pc, mark>>
    /\ UNCHANGED mainVars

ScanWhitespace ==
    /\ Scanning("whitespace")
    /\ SetLocals(OnWhitespace(Locals))
    /\ origin' = Tagged("normalizer")
    /\ UNCHANGED <<chars, cleaned, pc, mark>>
    /\ UNCHANGED mainVars

ScanChar ==
    /\ Scanning("char")
    /\ SetLocals(OnChar(Locals, chars[i]))
    /\ origin' = Tagged("char")
    /\ UNCHANGED <<chars, cleaned, pc, mark>>
    /\ UNCHANGED mainVars

\* the loop has ended: the cleanup pass runs and the function returns
Finish ==
    /\ pc = "scan"
    /\ i > Len(chars)
    /\ cleaned' = CleanUp(result)
    /\ pc' = "done"
    /\ UNCHANGED <<chars, i, result, in_tag, in_script, in_style, tag_name,
                   last_char_was_space, mark, origin>>
    /\ UNCHANGED mainVars

Next ==
    \/ ScanLt
    \/ ScanTagClose
    \/ ScanTagChar
    \/ SkipBody
    \/ ScanEntity
    \/ ScanWhitespace
    \/ ScanChar
    \/ Finish

Spec == Init /\ [][Next]_vars

(***************************************************************************)
(* Vocabulary of the specification, used to state the properties.          *)
(***************************************************************************)
\* the characters appended to the buffer by a step
Added == SubSeq(result', Len(result) + 1, Len(result'))

\* position p of cs lies inside a tag: from a '<' through the next '>', or
\* through the end of the input when no '>' follows
InsideTag(cs, p) ==
    \E q \in 1..p : cs[q] = Lt /\ \A j \in q..(p - 1) : cs[j] # Gt

\* plain text: neither '<' nor '&'
IsPlain(s) == \A k \in 1..Len(s) : s[k] \notin {Lt, Amp}

HasNonWhitespace(s) == \E k \in 1..Len(s) : ~IsWhitespace(s[k])

Count(s, c) == Cardinality({k \in 1..Len(s) : s[k] = c})

Indices(s) == [k \in 1..Len(s) |-> k]

\* the text state: not inside a tag, a script body or a style body
InText == ~in_tag /\ ~in_script /\ ~in_style

\* pat (lower case) occurs in cs at position p, in any letter case
OccursAt(cs, p, pat) ==
    /\ p + Len(pat) - 1 <= Len(cs)
    /\ ToLowercase(SubSeq(cs, p, p + Len(pat) - 1)) = pat

\* s with every maximal run of white space replaced by one space and
\* leading and trailing white space removed
Collapsed(s) ==
    LET Keep(k) ==
            \/ ~IsWhitespace(s[k])
            \/ /\ k > 1
               /\ ~IsWhitespace(s[k - 1])
               /\ \E j \in (k + 1)..Len(s) : ~IsWhitespace(s[j])
        kept == SelectSeq(Indices(s), Keep)
    IN [j \in 1..Len(kept) |->
            IF IsWhitespace(s[kept[j]]) THEN Space ELSE s[kept[j]]]

(***************************************************************************)
(* C1: tags are stripped.  No character of the input that lies inside a    *)
(* tag (from a '<' through the next '>', or the end of the input) is       *)
(* copied into the output, and the only output a tag can cause is a        *)
(* newline: a step of the main loop that consumes a position inside a tag  *)
(* appends nothing or one newline, and a '<' is appended only by an entity *)
(* step whose output is not the candidate itself.                          *)
(* (The claim says the same of '>'; a '>' outside any tag is ordinary text *)
(* and is copied, so that half is left out of what the code is held to.)   *)
(***************************************************************************)
C1_TagsStripped ==
    [][ (pc = "scan" /\ pc' = "scan") =>
          LET DecodingStep ==
                  chars[i] = Amp /\ Added # SubSeq(chars, i, i' - 1)
          IN /\ (\E p \in i..(i' - 1) : InsideTag(chars, p))
                    => Added \in {<<>>, <<Newline>>}
             /\ \A k \in 1..Len(Added) : Added[k] = Lt => DecodingStep ]_vars

(***************************************************************************)
(* C2: script and style bodies are invisible.  For plain x and y and every *)
(* c without the closing tag, html_to_text(x <script> c </script> y)       *)
(* equals html_to_text(x y); likewise for style.                           *)
(***************************************************************************)
ElementTags ==
    { << <<60, 115, 99, 114, 105, 112, 116, 62>>,
         <<60, 47, 115, 99, 114, 105, 112, 116, 62>> >>,   \* <script> </script>
      << <<60, 115, 116, 121, 108, 101, 62>>,
         <<60, 47, 115, 116, 121, 108, 101, 62>> >> }      \* <style> </style>

\* cs = x open c close y with x, y plain and no closing tag inside c
WrapsBody(cs, tags, p, q) ==
    LET bodyStart == p + Len(tags[1])
        afterClose == q + Len(tags[2])
    IN /\ IsPlain(SubSeq(cs, 1, p - 1))
       /\ OccursAt(cs, p, tags[1])
       /\ q >= bodyStart
       /\ OccursAt(cs, q, tags[2])
       /\ \A r \in bodyStart..(q - 1) :
              ~(OccursAt(cs, r, tags[2]) /\ r + Len(tags[2]) - 1 <= q - 1)
       /\ IsPlain(SubSeq(cs, afterClose, Len(cs)))

C2_BodiesInvisible ==
    pc = "done" =>
        \A tags \in ElementTags : \A p \in 1..Len(chars) : \A q \in p..Len(chars) :
            WrapsBody(chars, tags, p, q) =>
                cleaned = HtmlToText(SubSeq(chars, 1, p - 1)
                                       \o SubSeq(chars, q + Len(tags[2]), Len(chars)))

(***************************************************************************)
(* C3: for an input with neither '<' nor '&' the output is the input with  *)
(* every maximal run of white space replaced by one space and leading and  *)
(* trailing white space removed.                                           *)
(***************************************************************************)
C3_PlainTextCollapsed ==
    (pc = "done" /\ IsPlain(chars)) => cleaned = Collapsed(chars)

\* a plain input with a run of white space between two words and white
\* space at an end has been converted
C3_Witness ==
    /\ pc = "done"
    /\ IsPlain(chars)
    /\ \E k \in 2..(Len(chars) - 2) :
           /\ ~IsWhitespace(chars[k - 1])
           /\ IsWhitespace(chars[k]) /\ IsWhitespace(chars[k + 1])
           /\ HasNonWhitespace(SubSeq(chars, k + 2, Len(chars)))
    /\ Len(cleaned) = 3

(***************************************************************************)
(* C4 (as claimed): for an input made only of non-white-space plain text   *)
(* and br tags spelled <br>, <br/> or <br /> in any letter case, the       *)
(* number of newlines in the final output equals the number of br tags.    *)
(***************************************************************************)
BrSpellings == {
    <<60, 98, 114, 62>>,               \* "<br>"
    <<60, 98, 114, 47, 62>>,           \* "<br/>"
    <<60, 98, 114, 32, 47, 62>> }      \* "<br />"

RECURSIVE IsBrText(_)
IsBrText(s) ==
    \/ s = <<>>
    \/ /\ s # <<>>
       /\ Head(s) = Lt
       /\ \E pat \in BrSpellings :
              /\ OccursAt(s, 1, pat)
              /\ IsBrText(SubSeq(s, Len(pat) + 1, Len(s)))
    \/ /\ s # <<>>
       /\ Head(s) \notin {Lt, Amp}
       /\ ~IsWhitespace(Head(s))
       /\ IsBrText(Tail(s))

BrTagCount(s) == Count(s, Lt)

C4_OneNewlinePerBrInOutput ==
    (pc = "done" /\ IsBrText(chars)) =>
        Count(cleaned, Newline) = BrTagCount(chars)

(***************************************************************************)
(* C4 (amended): for such an input the number of newlines in the main-pass *)
(* buffer equals the number of br tags; the final output, which is the     *)
(* trimmed buffer with runs of newlines merged, has at most that many.     *)
(***************************************************************************)
C4_OneNewlinePerBrInBuffer ==
    (pc = "done" /\ IsBrText(chars)) =>
        /\ Count(result, Newline) = BrTagCount(chars)
        /\ Count(cleaned, Newline) <= BrTagCount(chars)

\* an input with text and two adjacent br tags has been converted
C4_Witness ==
    /\ pc = "done"
    /\ IsBrText(chars)
    /\ BrTagCount(chars) >= 2
    /\ HasNonWhitespace(cleaned)
    /\ Count(result, Newline) > Count(cleaned, Newline)

(***************************************************************************)
(* C5: a run of two or more directly adjacent block-level tags between two *)
(* plain texts that each contain a non-white-space character produces      *)
(* exactly one newline, in the buffer and in the output, located between   *)
(* the two texts.                                                          *)
(***************************************************************************)
BlockNames ==
    { <<112>>, <<100, 105, 118>>, <<108, 105>>, <<116, 114>> }   \* p div li tr
      \cup { <<104, d>> : d \in 49..54 }                         \* h1..h6

BlockTagSet == BlockNames \cup { <<47>> \o n : n \in BlockNames }

FirstIndex(s, c) ==
    IF \E k \in 1..Len(s) : s[k] = c
    THEN CHOOSE k \in 1..Len(s) : s[k] = c /\ \A j \in 1..(k - 1) : s[j] # c
    ELSE Len(s) + 1

\* the leading block-level tags of s taken off: how many, and what is left
RECURSIVE StripBlockTags(_, _)
StripBlockTags(s, n) ==
    LET g == FirstIndex(s, Gt) IN
    IF s # <<>> /\ Head(s) = Lt /\ g <= Len(s)
         /\ ToLowercase(SubSeq(s, 2, g - 1)) \in BlockTagSet
    THEN StripBlockTags(SubSeq(s, g + 1, Len(s)), n + 1)
    ELSE [count |-> n, rest |-> s]

BlockRunParts(cs) ==
    LET p == FirstIndex(cs, Lt)
        r == StripBlockTags(SubSeq(cs, p, Len(cs)), 0)
    IN [t1 |-> SubSeq(cs, 1, p - 1), count |-> r.count, t2 |-> r.rest]

IsBlockRunInput(cs) ==
    LET parts == BlockRunParts(cs) IN
    /\ IsPlain(parts.t1) /\ HasNonWhitespace(parts.t1)
    /\ parts.count >= 2
    /\ IsPlain(parts.t2) /\ HasNonWhitespace(parts.t2)

NonWhitespace(s) == SelectSeq(s, LAMBDA c : ~IsWhitespace(c))

C5_BlockRunOneNewline ==
    (pc = "done" /\ IsBlockRunInput(chars)) =>
        LET parts == BlockRunParts(chars)
            n == FirstIndex(cleaned, Newline)
        IN /\ Count(result, Newline) = 1
           /\ Count(cleaned, Newline) = 1
           /\ NonWhitespace(SubSeq(cleaned, 1, n - 1)) = NonWhitespace(parts.t1)
           /\ NonWhitespace(SubSeq(cleaned, n + 1, Len(cleaned)))
                  = NonWhitespace(parts.t2)

\* a run of three block-level tags between two texts has been converted
C5_Witness ==
    /\ pc = "done"
    /\ IsBlockRunInput(chars)
    /\ BlockRunParts(chars).count >= 3
    /\ Count(cleaned, Newline) = 1

(***************************************************************************)
(* C6: the returned text is the main-pass buffer with leading and trailing *)
(* white space removed and every maximal run of newlines replaced by one   *)
(* newline; it never contains two consecutive newlines.                    *)
(***************************************************************************)
Trimmed(s) ==
    IF ~HasNonWhitespace(s) THEN <<>>
    ELSE LET first == CHOOSE k \in 1..Len(s) :
                 ~IsWhitespace(s[k]) /\ \A j \in 1..(k - 1) : IsWhitespace(s[j])
             last == CHOOSE k \in 1..Len(s) :
                 ~IsWhitespace(s[k]) /\ \A j \in (k + 1)..Len(s) : IsWhitespace(s[j])
         IN SubSeq(s, first, last)

NewlineRunsMerged(s) ==
    LET Keep(k) == ~(s[k] = Newline /\ k > 1 /\ s[k - 1] = Newline)
        kept == SelectSeq(Indices(s), Keep)
    IN [j \in 1..Len(kept) |-> s[kept[j]]]

C6_CleanupPass ==
    pc = "done" =>
        /\ cleaned = NewlineRunsMerged(Trimmed(result))
        /\ \A k \in 1..(Len(cleaned) - 1) :
               ~(cleaned[k] = Newline /\ cleaned[k + 1] = Newline)

\* a buffer with a run of newlines inside and white space at an end has
\* been cleaned
C6_Witness ==
    /\ pc = "done"
    /\ \E k \in 1..(Len(Trimmed(result)) - 1) :
           Trimmed(result)[k] = Newline /\ Trimmed(result)[k + 1] = Newline
    /\ Len(Trimmed(result)) < Len(result)
    /\ Len(cleaned) >= 3

(***************************************************************************)
(* Entities, in the words of the specification.                            *)
(***************************************************************************)
\* the Entity Table: spelling with delimiters, literal replacement
EntityTable == {
    << <<38, 110, 98, 115, 112, 59>>, <<32>> >>,              \* &nbsp;   " "
    << <<38, 108, 116, 59>>, <<60>> >>,                       \* &lt;     <
    << <<38, 103, 116, 59>>, <<62>> >>,                       \* &gt;     >
    << <<38, 97, 109, 112, 59>>, <<38>> >>,                   \* &amp;    &
    << <<38, 113, 117, 111, 116, 59>>, <<34>> >>,             \* &quot;   "
    << <<38, 97, 112, 111, 115, 59>>, <<39>> >>,              \* &apos;   '
    << <<38, 99, 111, 112, 121, 59>>, <<169>> >>,             \* &copy;   U+00A9
    << <<38, 114, 101, 103, 59>>, <<174>> >>,                 \* &reg;    U+00AE
    << <<38, 116, 114, 97, 100, 101, 59>>, <<8482>> >>,       \* &trade;  U+2122
    << <<38, 109, 100, 97, 115, 104, 59>>, <<8212>> >>,       \* &mdash;  U+2014
    << <<38, 110, 100, 97, 115, 104, 59>>, <<8211>> >>,       \* &ndash;  U+2013
    << <<38, 104, 101, 108, 108, 105, 112, 59>>, <<8230>> >>, \* &hellip; U+2026
    << <<38, 98, 117, 108, 108, 59>>, <<8226>> >> }           \* &bull;   U+2022

IsTableKey(cand) == \E e \in EntityTable : e[1] = cand

TableLiteral(cand) == (CHOOSE e \in EntityTable : e[1] = cand)[2]

IsDecimalDigit(c) == c \in 48..57

IsHexDigit(c) == c \in (48..57) \cup (65..70) \cup (97..102)

HexDigitValue(c) ==
    IF c \in 48..57 THEN c - 48 ELSE IF c \in 65..70 THEN c - 55 ELSE c - 87

\* the number a digit string names; every number above 0x10FFFF is
\* reported as 0x110000
RECURSIVE NamedNumber(_, _, _)
NamedNumber(digits, radix, acc) ==
    IF digits = <<>> THEN acc
    ELSE LET v == acc * radix + HexDigitValue(Head(digits)) IN
         NamedNumber(Tail(digits), radix, IF v > 1114111 THEN 1114112 ELSE v)

IsScalarValue(v) == v >= 0 /\ v <= 1114111 /\ ~(v >= 55296 /\ v <= 57343)

\* cand is "&#x" hex-digits ";" or "&#" decimal-digits ";" with at least
\* one digit: whether it is, and the number it names
NumericReference(cand) ==
    LET hex == SubSeq(cand, 4, Len(cand) - 1)
        dec == SubSeq(cand, 3, Len(cand) - 1)
    IN IF /\ StartsWith(cand, <<38, 35, 120>>) /\ EndsWith(cand, Semi)
          /\ hex # <<>> /\ \A k \in 1..Len(hex) : IsHexDigit(hex[k])
       THEN [is |-> TRUE, value |-> NamedNumber(hex, 16, 0)]
       ELSE IF /\ StartsWith(cand, <<38, 35>>) /\ EndsWith(cand, Semi)
               /\ dec # <<>> /\ \A k \in 1..Len(dec) : IsDecimalDigit(dec[k])
       THEN [is |-> TRUE, value |-> NamedNumber(dec, 10, 0)]
       ELSE [is |-> FALSE, value |-> 0]

IsLegalReference(cand) ==
    NumericReference(cand).is /\ IsScalarValue(NumericReference(cand).value)

SemiFollows(cs, p) == \E k \in p..Len(cs) : cs[k] = Semi

\* the input from the '&' at p through the first following ';'
Candidate(cs, p) ==
    SubSeq(cs, p, CHOOSE k \in p..Len(cs) :
                      cs[k] = Semi /\ \A j \in p..(k - 1) : cs[j] # Semi)

\* an '&' is about to be scanned in text state
AtAmpInText == pc = "scan" /\ i <= Len(chars) /\ chars[i] = Amp /\ InText

(***************************************************************************)
(* C7: when an '&' is scanned in text state and a ';' occurs at or after   *)
(* it, the candidate runs from the '&' through the first following ';'; a  *)
(* candidate that is an Entity Table key is replaced by its literal, a     *)
(* numeric reference naming a legal scalar value by that character, and    *)
(* scanning resumes right after the ';'.                                   *)
(***************************************************************************)
C7_EntityDecoded ==
    [][ (AtAmpInText /\ SemiFollows(chars, i)) =>
          LET cand == Candidate(chars, i) IN
          /\ i' = i + Len(cand)
          /\ IsTableKey(cand) => result' = result \o TableLiteral(cand)
          /\ IsLegalReference(cand)
                 => result' = Append(result, NumericReference(cand).value) ]_vars

\* "a &#x41;b" has been converted to "a Ab"
C7_Witness ==
    /\ pc = "done"
    /\ chars = <<97, 32, 38, 35, 120, 52, 49, 59, 98>>
    /\ cleaned = <<97, 32, 65, 98>>

(***************************************************************************)
(* C8: a candidate that is neither an Entity Table key nor a numeric       *)
(* reference (digits only, at least one) naming a legal scalar value is    *)
(* emitted unchanged, with its '&' and ';'.                                *)
(***************************************************************************)
C8_UnknownEntityVerbatim ==
    [][ (AtAmpInText /\ SemiFollows(chars, i)) =>
          LET cand == Candidate(chars, i) IN
          (~IsTableKey(cand) /\ ~IsLegalReference(cand))
              => result' = result \o cand ]_vars

(***************************************************************************)
(* C9: when an '&' is scanned in text state and no ';' occurs in the rest  *)
(* of the input, exactly the '&' is appended, the white-space flag becomes *)
(* false and the scan position advances by one.                            *)
(***************************************************************************)
C9_LoneAmpersandLiteral ==
    [][ (AtAmpInText /\ ~SemiFollows(chars, i)) =>
          /\ result' = Append(result, Amp)
          /\ last_char_was_space' = FALSE
          /\ i' = i + 1 ]_vars

\* an '&' without a following ';' has just been scanned after white space,
\* and input remains
C9_Witness ==
    /\ pc = "scan"
    /\ i > 2 /\ i <= Len(chars)
    /\ chars[i - 1] = Amp
    /\ IsWhitespace(chars[i - 2])
    /\ ~SemiFollows(chars, i - 1)
    /\ InText
    /\ EndsWith(result, Amp)

(***************************************************************************)
(* C10: while the scanner is inside a tag the buffer is the buffer of the  *)
(* moment the tag's '<' was scanned; in particular, when the input ends    *)
(* inside a tag nothing scanned since that '<' has reached the buffer.     *)
(***************************************************************************)
C10_DanglingTagDiscarded ==
    in_tag => result = mark

\* the input ended inside a tag that follows some text
C10_Witness ==
    /\ pc = "done"
    /\ in_tag
    /\ tag_name # <<>>
    /\ result # <<>>
    /\ cleaned = result

(***************************************************************************)
(* C11: html_to_text is total and terminates.  Every iteration of the main *)
(* loop advances the scan position by at least one character, the position *)
(* never passes the end of the input (also when an entity candidate is     *)
(* skipped as a block), no index or slice of an iteration is out of range  *)
(* (no step aborts), the loop is left exactly at the end of the input and  *)
(* a text is returned; the empty input returns the empty text.             *)
(***************************************************************************)
\* s[lo..hi] of a sequence of length len does not abort (0-based, hi excluded)
SliceInRange(lo, hi, len) == lo <= hi /\ hi <= len

\* the slices taken when the '&' at position i is decoded are in range
EntitySlicesInRange ==
    LET end_pos == EntityEnd(chars, i)
        entity == SubSeq(chars, i, i + end_pos)
    IN /\ SliceInRange(i - 1, i + end_pos, Len(chars))
       /\ (StartsWith(entity, HexPrefix) /\ EndsWith(entity, Semi))
              => SliceInRange(3, Len(entity) - 1, Len(entity))
       /\ (/\ ~(StartsWith(entity, HexPrefix) /\ EndsWith(entity, Semi))
           /\ StartsWith(entity, NumPrefix) /\ EndsWith(entity, Semi))
              => SliceInRange(2, Len(entity) - 1, Len(entity))

C11_TotalAndTerminating ==
    /\ [](/\ i >= 1 /\ i <= Len(chars) + 1
          /\ (pc = "scan" /\ i <= Len(chars))
                 => /\ LoopBody(chars, Locals).i > i
                    /\ LoopBody(chars, Locals).i <= Len(chars) + 1
          /\ (pc = "scan" /\ i <= Len(chars) /\ Branch(chars, Locals) = "entity")
                 => EntitySlicesInRange
          /\ pc = "done" => i = Len(chars) + 1
          /\ (pc = "done" /\ chars = <<>>) => cleaned = <<>>)
    /\ [][ pc = "scan" =>
             \/ pc' = "scan" /\ i <= Len(chars) /\ i' > i /\ i' <= Len(chars) + 1
             \/ pc' = "done" /\ i = Len(chars) + 1 /\ i' = i ]_vars

\* an input in which an entity candidate was skipped as a block, up to the
\* last character, has been converted
C11_Witness ==
    /\ pc = "done"
    /\ Len(chars) >= 3
    /\ chars[Len(chars)] = Semi
    /\ \E p \in 1..(Len(chars) - 2) :
           /\ chars[p] = Amp
           /\ IsPlain(SubSeq(chars, 1, p - 1))
           /\ \A k \in p..(Len(chars) - 1) : chars[k] # Semi
    /\ cleaned # <<>>

(***************************************************************************)
(* C12: immediately after a </script> or a </style> tag has been processed *)
(* the scanner is in the text state, whatever tags were seen before it     *)
(* (so the plain characters that follow are appended), and script-body     *)
(* mode and style-body mode are never active at the same time.             *)
(***************************************************************************)
C12_ClosingTagReturnsToText ==
    /\ [](~(in_script /\ in_style))
    /\ [][ (/\ Scanning("tag_close")
            /\ ToLowercase(tag_name) \in {ScriptEndTag, StyleEndTag})
               => InText' ]_vars

(***************************************************************************)
(* C13: in the main-pass buffer a space appended by the white-space        *)
(* normalizer is never adjacent to another white-space character, except a *)
(* forced newline appended for a br or block tag; white space substituted  *)
(* for an entity is no exception, on either side.                          *)
(***************************************************************************)
C13_NormalizerSpaceIsolated ==
    \A k \in 1..Len(result) :
        origin[k] = "normalizer" =>
            \A n \in {k - 1, k + 1} \cap (1..Len(result)) :
                IsWhitespace(result[n]) => origin[n] = "forced"

(***************************************************************************)
(* C14: at the start of every iteration of the main loop the white-space   *)
(* flag is true if and only if the buffer is not empty and its last        *)
(* character is a white-space character, whatever step came before.        *)
(***************************************************************************)
C14_FlagTracksBuffer ==
    pc = "scan" =>
        (last_char_was_space
            <=> (result # <<>> /\ IsWhitespace(result[Len(result)])))

\* a white-space character has just been dropped after an entity whose
\* substitution is white space
C14_Witness ==
    /\ pc = "scan"
    /\ i > 2
    /\ chars[i - 2] = Semi
    /\ IsWhitespace(chars[i - 1])
    /\ result # <<>>
    /\ origin[Len(result)] = "entity"
    /\ last_char_was_space

(***************************************************************************)
(* C15: a completed tag whose lower-cased text between '<' and '>' is not  *)
(* exactly br, br/, "br /", an opening or closing block name, script,      *)
(* /script, style or /style leaves the buffer, the white-space flag and    *)
(* the script and style modes unchanged and only clears the tag-name       *)
(* buffer; a tag with attributes or extra spaces is such a tag.            *)
(***************************************************************************)
BrNames == { <<98, 114>>, <<98, 114, 47>>, <<98, 114, 32, 47>> }   \* br br/ "br /"

RecognisedTags ==
    BrNames \cup BlockTagSet
      \cup {ScriptTag, ScriptEndTag, StyleTag, StyleEndTag}

C15_UnrecognisedTagIsInert ==
    [][ (Scanning("tag_close") /\ ToLowercase(tag_name) \notin RecognisedTags)
          => /\ result' = result
             /\ last_char_was_space' = last_char_was_space
             /\ in_script' = in_script
             /\ in_style' = in_style
             /\ tag_name' = <<>>
             /\ ~in_tag' ]_vars

\* "<br >" has just been completed after "a" outside any body: nothing was
\* appended and the flag is still false
C15_Witness ==
    /\ pc = "scan"
    /\ i = 7
    /\ SubSeq(chars, 1, 6) = <<97, 60, 98, 114, 32, 62>>     \* "a<br >"
    /\ result = <<97>>
    /\ ~last_char_was_space
    /\ InText
    /\ tag_name = <<>>

(***************************************************************************)
(* C16: during the main pass the buffer is append-only and bounded by the  *)
(* input consumed: the buffer before a step is a prefix of the buffer      *)
(* after it, and at the start of every iteration the buffer has at most as *)
(* many characters as have been scanned.                                   *)
(***************************************************************************)
IsPrefix(s, t) == Len(s) <= Len(t) /\ SubSeq(t, 1, Len(s)) = s

C16_AppendOnlyAndBounded ==
    /\ [](pc = "scan" => Len(result) <= i - 1)
    /\ [][IsPrefix(result, result')]_vars

\* a br tag has just appended its newline after a normalizer space
C16_Witness ==
    /\ pc = "scan"
    /\ Len(result) >= 3
    /\ origin[Len(result)] = "forced"
    /\ origin[Len(result) - 1] = "normalizer"
    /\ chars[i - 1] = Gt
    /\ IsBrTag(ToLowercase(SubSeq(chars, i - 3, i - 2)))

(***************************************************************************)
(* Strings as bytes.  A String is held as the UTF-8 encoding of its        *)
(* characters; len() and the range slices count bytes.                     *)
(***************************************************************************)
\* the UTF-8 encoding of the character c
Utf8Char(c) ==
    IF c < 128 THEN <<c>>
    ELSE IF c < 2048 THEN <<192 + (c \div 64), 128 + (c % 64)>>
    ELSE IF c < 65536
         THEN <<224 + (c \div 4096), 128 + ((c \div 64) % 64), 128 + (c % 64)>>
         ELSE <<240 + (c \div 262144), 128 + ((c \div 4096) % 64),
                128 + ((c \div 64) % 64), 128 + (c % 64)>>

\* the bytes of s[lo..hi], by halves
RECURSIVE Utf8Range(_, _, _)
Utf8Range(s, lo, hi) ==
    IF lo > hi THEN <<>>
    ELSE IF lo = hi THEN Utf8Char(s[lo])
    ELSE LET mid == (lo + hi) \div 2 IN
         Utf8Range(s, lo, mid) \o Utf8Range(s, mid + 1, hi)

Utf8(s) == Utf8Range(s, 1, Len(s))

\* str::is_char_boundary: byte offset n (0-based) is the start of a
\* character or the end of the string
IsCharBoundary(bytes, n) ==
    \/ n = 0
    \/ n = Len(bytes)
    \/ n < Len(bytes) /\ ~(bytes[n + 1] >= 128 /\ bytes[n + 1] < 192)

(***************************************************************************)
(* main: the presentation of the converted text.                           *)
(***************************************************************************)
max_chars == 2000

\* what is printed of the text t, or that the slice aborts
Presentation(t) ==
    LET bytes == Utf8(t) IN
    IF Len(bytes) > max_chars
    THEN IF IsCharBoundary(bytes, max_chars)
         THEN [aborted |-> FALSE, kind |-> "truncated",
               out |-> SubSeq(bytes, 1, max_chars),
               more |-> Len(bytes) - max_chars]
         ELSE [aborted |-> TRUE, kind |-> "none", out |-> <<>>, more |-> 0]
    ELSE [aborted |-> FALSE, kind |-> "whole", out |-> bytes, more |-> 0]

Printed(p) == [kind |-> p.kind, out |-> p.out, more |-> p.more]

\* converted texts around max_chars bytes: a run of 'a' and then up to
\* MaxWide characters of two, three or four bytes
MaxWide == 2
MaxShort == 9

WideChars == {169, 8212, 128512}       \* U+00A9 (&copy;)  U+2014 (&mdash;)  U+1F600

PresentTexts ==
    {[k \in 1..(n + m) |-> IF k <= n THEN 97 ELSE c] :
        n \in (max_chars - MaxShort)..(max_chars + 1),
        m \in 0..MaxWide,
        c \in WideChars}

PresentInit ==
    /\ chars = <<>>
    /\ i = 1
    /\ result = <<>>
    /\ in_tag = FALSE
    /\ in_script = FALSE
    /\ in_style = FALSE
    /\ tag_name = <<>>
    /\ last_char_was_space = FALSE
    /\ cleaned = <<>>
    /\ mark = <<>>
    /\ origin = <<>>
    /\ response_file = NoFile
    /\ request_file = NoRequest
    /\ response_content = <<>>
    /\ response = NoResponse
    /\ text \in PresentTexts
    /\ shown = NothingShown
    /\ run = NewRun
    /\ tally = NewTally
    /\ pc = "present"

Presenting(kind) ==
    /\ pc = "present"
    /\ Presentation(text).kind = kind

\* text.len() <= max_chars: the whole text is printed
ShowWhole ==
    /\ Presenting("whole")
    /\ shown' = Printed(Presentation(text))
    /\ pc' = "ended"
    /\ UNCHANGED <<htmlVars, response_file, request_file, response_content,
                   response, text, run, tally>>

\* text.len() > max_chars: the first max_chars bytes and the count of the rest
ShowTruncated ==
    /\ Presenting("truncated")
    /\ shown' = Printed(Presentation(text))
    /\ pc' = "ended"
    /\ UNCHANGED <<htmlVars, response_file, request_file, response_content,
                   response, text, run, tally>>

\* text.len() > max_chars and &text[..max_chars] is not on a character
\* boundary: the process aborts
ShowAborts ==
    /\ pc = "present"
    /\ Presentation(text).aborted
    /\ pc' = "aborted"
    /\ UNCHANGED <<htmlVars, mainVars>>

PresentNext == ShowWhole \/ ShowTruncated \/ ShowAborts

PresentSpec == PresentInit /\ [][PresentNext]_vars

(***************************************************************************)
(* C17: for every converted text the presentation step completes without   *)
(* aborting: a text longer than 2000 bytes has its first 2000 bytes        *)
(* printed, followed by the count of the remaining ones, any other text is *)
(* printed whole; also when the text has multi-byte characters.            *)
(***************************************************************************)
C17_PresentationCompletes ==
    [][ pc = "present" =>
          LET bytes == Utf8(text) IN
          /\ pc' = "ended"
          /\ Len(bytes) > 2000
                 => /\ shown'.out = SubSeq(bytes, 1, 2000)
                    /\ shown'.more = Len(bytes) - 2000
          /\ Len(bytes) <= 2000 => shown'.out = bytes ]_vars

(***************************************************************************)
(* The response parser.  Texts are sequences of characters; a byte offset  *)
(* is turned into characters through the UTF-8 encoding.                   *)
(***************************************************************************)
Quote == 34
Backslash == 92
MaxU16 == 65535

\* str::find: the position of the first occurrence of pat in s, 0 for None
Find(s, pat) ==
    LET Hits == {q \in 1..(Len(s) - Len(pat) + 1) :
                     SubSeq(s, q, q + Len(pat) - 1) = pat}
    IN IF Hits = {} THEN 0
       ELSE CHOOSE q \in Hits : \A r \in Hits : q <= r

\* str::replace: every non-overlapping occurrence of from, left to right
RECURSIVE Replace(_, _, _)
Replace(s, from, to) ==
    IF Len(s) < Len(from) THEN s
    ELSE IF SubSeq(s, 1, Len(from)) = from
         THEN to \o Replace(SubSeq(s, Len(from) + 1, Len(s)), from, to)
         ELSE <<Head(s)>> \o Replace(Tail(s), from, to)

UnescapeJson(s) ==
    LET s1 == Replace(s, <<92, 34>>, <<34>>)        \* \"  ->  "
        s2 == Replace(s1, <<92, 92>>, <<92>>)       \* \\  ->  \
        s3 == Replace(s2, <<92, 110>>, <<10>>)      \* \n  ->  newline
        s4 == Replace(s3, <<92, 114>>, <<13>>)      \* \r  ->  carriage return
    IN Replace(s4, <<92, 116>>, <<9>>)              \* \t  ->  tab

\* the loop over remaining.chars().enumerate(): the value of `end`, which
\* is the number of characters before the closing quote, 0 when there is none
RECURSIVE ClosingQuoteScan(_, _, _)
ClosingQuoteScan(remaining, k, escaped) ==
    IF k > Len(remaining) THEN 0
    ELSE IF escaped THEN ClosingQuoteScan(remaining, k + 1, FALSE)
    ELSE IF remaining[k] = Backslash THEN ClosingQuoteScan(remaining, k + 1, TRUE)
    ELSE IF remaining[k] = Quote THEN k - 1
    ELSE ClosingQuoteScan(remaining, k + 1, FALSE)

\* &remaining[..end]: end is taken as a byte offset; the slice aborts when
\* that offset is not on a character boundary
SliceTo(remaining, end) ==
    LET bytes == Utf8(remaining) IN
    IF end <= Len(bytes) /\ IsCharBoundary(bytes, end)
    THEN [aborted |-> FALSE,
          value |-> SubSeq(remaining, 1,
                           CHOOSE m \in 0..Len(remaining) :
                               Len(Utf8(SubSeq(remaining, 1, m))) = end)]
    ELSE [aborted |-> TRUE, value |-> <<>>]

\* an Option<String>, or that the call aborted
ExtractJsonString(json, key) ==
    LET pattern == <<Quote>> \o key \o <<Quote, 58, Quote>>     \* "key":"
        start == Find(json, pattern)
        remaining == SubSeq(json, start + Len(pattern), Len(json))
        value == SliceTo(remaining, ClosingQuoteScan(remaining, 1, FALSE))
    IN IF start # 0
       THEN IF value.aborted
            THEN [aborted |-> TRUE, some |-> FALSE, value |-> <<>>]
            ELSE [aborted |-> FALSE, some |-> TRUE,
                  value |-> UnescapeJson(value.value)]
       ELSE [aborted |-> FALSE, some |-> FALSE, value |-> <<>>]

IsAsciiDigit(c) == c >= 48 /\ c <= 57

\* take_while(is_ascii_digit)
RECURSIVE LeadingDigits(_)
LeadingDigits(s) ==
    IF s # <<>> /\ IsAsciiDigit(Head(s))
    THEN <<Head(s)>> \o LeadingDigits(Tail(s))
    ELSE <<>>

\* num_str.parse::<u16>().ok(): MaxU16 + 1 stands for an overflow
RECURSIVE AccumulateU16(_, _)
AccumulateU16(digits, acc) ==
    IF digits = <<>> \/ acc > MaxU16 THEN acc
    ELSE AccumulateU16(Tail(digits), acc * 10 + (Head(digits) - 48))

ParseU16(num_str) ==
    IF num_str = <<>> \/ AccumulateU16(num_str, 0) > MaxU16
    THEN [some |-> FALSE, value |-> 0]
    ELSE [some |-> TRUE, value |-> AccumulateU16(num_str, 0)]

ExtractJsonU16(json, key) ==
    LET pattern == <<Quote>> \o key \o <<Quote, 58>>            \* "key":
        start == Find(json, pattern)
        remaining == SubSeq(json, start + Len(pattern), Len(json))
    IN IF start # 0 THEN ParseU16(LeadingDigits(remaining))
       ELSE [some |-> FALSE, value |-> 0]

StatusKey == <<115, 116, 97, 116, 117, 115>>       \* "status"
BodyKey == <<98, 111, 100, 121>>                   \* "body"
ErrorKey == <<101, 114, 114, 111, 114>>            \* "error"

\* the HttpResponse, or that one of the extractions aborted
ParseResponse(content) ==
    LET status == ExtractJsonU16(content, StatusKey)
        body == ExtractJsonString(content, BodyKey)
        error == ExtractJsonString(content, ErrorKey)
    IN [aborted |-> body.aborted \/ error.aborted,
        status |-> IF status.some THEN status.value ELSE 0,
        body |-> IF body.some THEN body.value ELSE <<>>,
        error |-> [some |-> error.some, value |-> error.value]]

(***************************************************************************)
(* Runs of the program and the host.                                       *)
(***************************************************************************)
Url == "https://httpbin.org/html"

MaxRequests == 2
MaxValueTokens == 2

\* pieces of a JSON string value: a  U+00E9  U+2014  \"  \\  \n  <br>
ValueTokens == {
    <<97>>, <<233>>, <<8212>>, <<92, 34>>, <<92, 92>>, <<92, 110>>,
    <<60, 98, 114, 62>> }

Values == {Concat(ts) : ts \in SeqsUpTo(ValueTokens, MaxValueTokens)}

\* {"status":S,"body":"V","error":E}
Content(status, value, error) ==
    <<123, 34, 115, 116, 97, 116, 117, 115, 34, 58>> \o status
      \o <<44, 34, 98, 111, 100, 121, 34, 58, 34>> \o value
      \o <<34, 44, 34, 101, 114, 114, 111, 114, 34, 58>> \o error
      \o <<125>>

ResponseContents ==
    {Content(s, v, <<110, 117, 108, 108>>) :                     \* null
        s \in {<<50, 48, 48>>, <<55, 48, 48, 48, 48>>},          \* 200 70000
        v \in Values}
      \cup {Content(<<48>>, v, <<34, 116, 105, 109, 101, 111, 117, 116, 34>>) :
               v \in {<<>>, <<233>>}}                            \* "timeout"

ProgInit ==
    /\ chars = <<>>
    /\ i = 1
    /\ result = <<>>
    /\ in_tag = FALSE
    /\ in_script = FALSE
    /\ in_style = FALSE
    /\ tag_name = <<>>
    /\ last_char_was_space = FALSE
    /\ cleaned = <<>>
    /\ mark = <<>>
    /\ origin = <<>>
    /\ MainIdle
    /\ pc = "off"

\* a process starts with fresh locals
FreshLocals ==
    /\ response_content' = <<>>
    /\ response' = NoResponse
    /\ text' = <<>>
    /\ shown' = NothingShown
    /\ run' = NewRun

\* the user starts the program (again)
StartRun ==
    /\ pc \in {"off", "ended", "aborted"}
    /\ tally.requests < MaxRequests
    /\ FreshLocals
    /\ pc' = "main"
    /\ UNCHANGED <<htmlVars, response_file, request_file, tally>>

\* response_file.exists()
CheckResponseFile ==
    /\ pc = "main"
    /\ run' = [run EXCEPT !.found = IF response_file.exists THEN "yes" ELSE "no"]
    /\ pc' = IF response_file.exists THEN "read" ELSE "request"
    /\ UNCHANGED <<htmlVars, response_file, request_file, response_content,
                   response, text, shown, tally>>

\* the response file is read and removed
ReadResponseFile ==
    /\ pc = "read"
    /\ response_content' = response_file.content
    /\ response_file' = NoFile
    /\ run' = [run EXCEPT !.read = TRUE, !.removed = TRUE]
    /\ tally' = [tally EXCEPT !.reads = @ + 1, !.last = "consume"]
    /\ pc' = "parse"
    /\ UNCHANGED <<htmlVars, request_file, response, text, shown>>

\* return parse_response(&response_content), unless a slice in it aborts
ReturnParsed ==
    /\ pc = "parse"
    /\ LET r == ParseResponse(response_content) IN
       IF r.aborted
       THEN /\ pc' = "aborted"
            /\ UNCHANGED <<response, run>>
       ELSE /\ response' = [status |-> r.status, body |-> r.body,
                            error |-> r.error]
            /\ run' = [run EXCEPT !.returned = TRUE]
            /\ pc' = "show"
    /\ UNCHANGED <<htmlVars, response_file, request_file, response_content,
                   text, shown, tally>>

\* the response carries an error: it is printed and main returns
ShowError ==
    /\ pc = "show"
    /\ response.error.some
    /\ shown' = [kind |-> "error", out |-> Utf8(response.error.value), more |-> 0]
    /\ tally' = [tally EXCEPT !.displays = @ + 1]
    /\ pc' = "ended"
    /\ UNCHANGED <<htmlVars, response_file, request_file, response_content,
                   response, text, run>>

\* the body is converted and presented
ShowPage ==
    /\ pc = "show"
    /\ ~response.error.some
    /\ text' = HtmlToText(response.body)
    /\ LET p == Presentation(HtmlToText(response.body)) IN
       IF p.aborted
       THEN /\ pc' = "aborted"
            /\ UNCHANGED <<shown, tally>>
       ELSE /\ shown' = Printed(p)
            /\ tally' = [tally EXCEPT !.displays = @ + 1]
            /\ pc' = "ended"
    /\ UNCHANGED <<htmlVars, response_file, request_file, response_content,
                   response, run>>

\* no response yet: the request is written and the process exits
WriteRequest ==
    /\ pc = "request"
    /\ request_file' = [exists |-> TRUE, method |-> "GET", url |-> Url]
    /\ run' = [run EXCEPT !.wrote = TRUE, !.exited = TRUE]
    /\ tally' = [tally EXCEPT !.requests = @ + 1, !.last = "request"]
    /\ pc' = "exited"
    /\ UNCHANGED <<htmlVars, response_file, response_content, response,
                   text, shown>>

\* the host processes the request: it writes the response file and runs
\* the program again
HostRespond ==
    /\ pc = "exited"
    /\ \E c \in ResponseContents :
           response_file' = [exists |-> TRUE, content |-> c]
    /\ tally' = [tally EXCEPT !.responses = @ + 1]
    /\ FreshLocals
    /\ pc' = "main"
    /\ UNCHANGED <<htmlVars, request_file>>

RunStep ==
    \/ CheckResponseFile
    \/ ReadResponseFile
    \/ ReturnParsed
    \/ ShowError
    \/ ShowPage
    \/ WriteRequest

ProgNext == StartRun \/ RunStep \/ HostRespond

ProgSpec == ProgInit /\ [][ProgNext]_vars

\* the labels at which a step of a run is enabled
RunLabels == {"main", "read", "parse", "show", "request"}

\* The host answers every request, and a started run is not suspended for
\* ever.  The second condition is WF_vars(RunStep), written with the enabling
\* condition of RunStep: a step of RunStep is possible exactly at the labels
\* of RunLabels and leaves them after at most four steps.
FairProgSpec ==
    ProgSpec /\ WF_vars(HostRespond) /\ []<>(pc \notin RunLabels)

(***************************************************************************)
(* C18: for every response text that contains "body":"V", where the        *)
(* closing quote is the first '"' after the opening one that is not        *)
(* preceded by an escaping backslash, extract_json_string(text, "body")    *)
(* returns the whole of V, unescaped, without aborting, also when V has    *)
(* multi-byte characters.                                                  *)
(***************************************************************************)
BodyPattern == <<34, 98, 111, 100, 121, 34, 58, 34>>       \* "body":"

\* the '"' at position k of r is preceded by an escaping backslash: the run
\* of backslashes that ends right before it has odd length
IsEscaped(r, k) ==
    LET runStart == CHOOSE j \in 1..k :
                        /\ \A n \in j..(k - 1) : r[n] = Backslash
                        /\ (j > 1 => r[j - 1] # Backslash)
    IN (k - runStart) % 2 = 1

IsClosingQuote(r, k) ==
    /\ r[k] = Quote /\ ~IsEscaped(r, k)
    /\ \A j \in 1..(k - 1) : ~(r[j] = Quote /\ ~IsEscaped(r, j))

AfterBodyPattern(json) ==
    SubSeq(json, Find(json, BodyPattern) + Len(BodyPattern), Len(json))

HasBodyValue(json) ==
    /\ Find(json, BodyPattern) # 0
    /\ \E k \in 1..Len(AfterBodyPattern(json)) :
           IsClosingQuote(AfterBodyPattern(json), k)

BodyValue(json) ==
    LET r == AfterBodyPattern(json) IN
    SubSeq(r, 1, (CHOOSE k \in 1..Len(r) : IsClosingQuote(r, k)) - 1)

C18_BodyExtractedWhole ==
    [][ (pc = "parse" /\ HasBodyValue(response_content))
          => /\ pc' = "show"
             /\ response'.body = UnescapeJson(BodyValue(response_content)) ]_vars

(***************************************************************************)
(* C19: each run of http_get does exactly one of two things, decided by    *)
(* whether the response file exists when it is checked: if it exists the   *)
(* file is read, removed and its parsed content returned, and no request   *)
(* is written in that run; if not, the request file is written with method *)
(* GET and the URL and the process exits without returning a response.  No *)
(* run both writes a request and returns a response.                       *)
(***************************************************************************)
RunOver == pc \in {"ended", "aborted", "exited"}

C19_RunDoesExactlyOneThing ==
    /\ RunOver =>
          \/ /\ run.found = "yes"
             /\ run.read /\ run.removed /\ run.returned
             /\ ~run.wrote
          \/ /\ run.found = "no"
             /\ run.wrote /\ run.exited /\ ~run.returned
             /\ request_file = [exists |-> TRUE, method |-> "GET", url |-> Url]
    /\ ~(run.wrote /\ run.returned)

(***************************************************************************)
(* C20: with no response file at the start and a host that answers every   *)
(* request and runs the program again, runs alternate strictly between     *)
(* writing a request and consuming a response, every request is eventually *)
(* followed by a run that displays the page content or the response's      *)
(* error, and each response file is consumed by exactly one run.           *)
(***************************************************************************)
C20_RequestLeadsToDisplay ==
    /\ [][ /\ tally'.requests > tally.requests => tally.last # "request"
           /\ tally'.reads > tally.reads => tally.last = "request" ]_vars
    /\ [](tally.reads = tally.responses - (IF response_file.exists THEN 1 ELSE 0))
    /\ \A n \in 1..MaxRequests :
           (tally.requests = n) ~> (tally.displays = n)

====
